---- MODULE Spec2Model ----
(***************************************************************************)
(* Model of the WebForms postback replay scripts of SiteReportAutomate:    *)
(*   scripts/firmware_webforms_replay_playwright.py  (script "pw")         *)
(*   scripts/firmware_webforms_replay.py             (script "http")       *)
(*   scripts/webforms_replay.py                      (script "wr")         *)
(*   scripts/schedule_firmware.py                    (script "sf")         *)
(* Spec is the batch run of one of the four scripts over an input file;    *)
(* SpecParse applies the response parsers to bounded response bodies.      *)
(***************************************************************************)
EXTENDS Integers, Sequences, FiniteSets, TLC

(***************************************************************************)
(* Bounds of the model.                                                    *)
(***************************************************************************)
MaxRows == 2
MaxNodes == 2
MaxWords == 1

(***************************************************************************)
(* Text.  A text is a sequence of words (what " ".join(s.split()) yields);  *)
(* the empty text is << >>.  An HTML fragment is a sequence of nodes, each  *)
(* an element with an id (or "" for text outside every status element) and  *)
(* the words of its text.  A response body is the list of its "|"-separated *)
(* tokens, each token a fragment: a body without "|" is a single token, a   *)
(* literal token such as updatePanel is a fragment holding that one word.   *)
(* Every modelled text is shorter than 300 characters, so the [:300] slice  *)
(* of the preview returns it whole.                                         *)
(***************************************************************************)
Words == {"Success", "Upgrade", "Cannot"}

StatusSelectors == <<"MainContent_MessageLabel", "MainContent_lblMessage", "MainContent_lblStatus">>

Keywords == <<"SUCCESS", "SCHEDULE", "NOT", "INVALID", "ERROR">>

\* str.upper() of a word of the vocabulary and of the markup literals.
Upper(w) ==
    CASE w = "Success" -> "SUCCESS"
      [] w = "Upgrade" -> "UPGRADE"
      [] w = "Cannot" -> "CANNOT"
      [] w = "updatePanel" -> "UPDATEPANEL"
      [] w = "lblMessage" -> "LBLMESSAGE"
      [] w = "pageTitle" -> "PAGETITLE"
      [] w = "error" -> "ERROR"
      [] w = "Invalid" -> "INVALID"
      [] OTHER -> w

\* `key in s` for an upper-cased word s: the keywords each upper-cased word holds.
KeyIn(key, s) ==
    \/ key = s
    \/ s = "CANNOT" /\ key = "NOT"

SeqsUpTo(S, n) == UNION {[1..k -> S] : k \in 0..n}

Texts == SeqsUpTo(Words, MaxWords)

NodeIds == {"", "MainContent_MessageLabel", "MainContent_lblMessage", "MainContent_lblStatus"}

Nodes == [id : NodeIds, text : Texts]

Fragments == SeqsUpTo(Nodes, MaxNodes)

Lit(w) == <<[id |-> "", text |-> <<w>>]>>

RECURSIVE ConcatAll(_)
ConcatAll(ss) == IF ss = << >> THEN << >> ELSE Head(ss) \o ConcatAll(Tail(ss))

\* BeautifulSoup(html).get_text(" ", strip=True).split(): every word of the fragment.
GetText(frag) == ConcatAll([i \in 1..Len(frag) |-> frag[i].text])

\* soup.select_one("#" + sel): the first element with that id, or << >> for None.
SelectOne(frag, sel) ==
    LET hits == {i \in 1..Len(frag) : frag[i].id = sel}
    IN IF hits = {} THEN << >>
       ELSE <<frag[CHOOSE i \in hits : \A j \in hits : i <= j]>>

\* html.startswith("|"): the first token is empty and a separator follows it.
StartsWithPipe(body) == Len(body) >= 2 /\ body[1] = << >>

\* The markup of a body seen as one document (the "|" are plain text).
Flatten(body) == ConcatAll(body)

\* html.upper(): the upper-cased words of the raw body.  The markup itself (tag
\* names, the three status ids, digits) holds none of the keywords.
RawUpper(body) ==
    LET ws == GetText(Flatten(body))
    IN {Upper(ws[i]) : i \in 1..Len(ws)}

\* The keyword sniff: the first key of the priority list found in html.upper().
FirstKeyword(body) ==
    LET up == RawUpper(body)
        hits == {k \in 1..Len(Keywords) : \E s \in up : KeyIn(Keywords[k], s)}
    IN IF hits = {} THEN << >>
       ELSE <<Keywords[CHOOSE k \in hits : \A j \in hits : k <= j]>>

\* The while loop of _extract_from_msajax_delta: the token three places after
\* each updatePanel marker, the walk resuming after that token.
\* FragmentAt taking the token two places after the marker (the byte length).
FragmentAtLength(tokens, k) == tokens[k + 2]

\* `html = tokens[i + 3]`: the fragment of the updatePanel entry whose marker
\* is at position k.
FragmentAt(tokens, k) == tokens[k + 3]

RECURSIVE Snippets(_, _)
Snippets(tokens, k) ==
    IF k > Len(tokens) THEN << >>
    ELSE IF tokens[k] = Lit("updatePanel") /\ k + 3 <= Len(tokens)
         THEN <<FragmentAt(tokens, k)>> \o Snippets(tokens, k + 4)
         ELSE Snippets(tokens, k + 1)

\* First loop over the snippets: the first non-empty text of a status element,
\* the selectors tried in order inside each snippet.
RECURSIVE FirstLabelText(_, _, _)
FirstLabelText(snips, n, s) ==
    IF n > Len(snips) THEN << >>
    ELSE IF s > Len(StatusSelectors) THEN FirstLabelText(snips, n + 1, 1)
    ELSE LET node == SelectOne(snips[n], StatusSelectors[s])
         IN IF node # << >> /\ node[1].text # << >>
            THEN node[1].text
            ELSE FirstLabelText(snips, n, s + 1)

\* Second loop over the snippets: the first non-empty cleaned text.
RECURSIVE FirstCleaned(_, _)
FirstCleaned(snips, n) ==
    IF n > Len(snips) THEN << >>
    ELSE IF GetText(snips[n]) # << >> THEN GetText(snips[n])
    ELSE FirstCleaned(snips, n + 1)

ExtractFromMsAjaxDelta(delta) ==
    IF ~StartsWithPipe(delta) THEN << >>
    ELSE LET snips == Snippets(delta, 1)
             label == FirstLabelText(snips, 1, 1)
         IN IF label # << >> THEN label ELSE FirstCleaned(snips, 1)

\* The selector loop of the full-page parsers: the text of the first status
\* element present (empty or not); found tells whether one was present.
RECURSIVE FirstElement(_, _)
FirstElement(doc, s) ==
    IF s > Len(StatusSelectors) THEN [found |-> FALSE, text |-> << >>]
    ELSE LET node == SelectOne(doc, StatusSelectors[s])
         IN IF node # << >> THEN [found |-> TRUE, text |-> node[1].text]
            ELSE FirstElement(doc, s + 1)

\* firmware_webforms_replay_playwright.parse_status_from_html
ParseStatusFromHtml(html) ==
    IF StartsWithPipe(html) THEN ExtractFromMsAjaxDelta(html)
    ELSE LET el == FirstElement(Flatten(html), 1)
         IN IF el.found THEN el.text ELSE FirstKeyword(html)

\* firmware_webforms_replay.parse_status
ParseStatus(html) ==
    LET el == FirstElement(Flatten(html), 1)
    IN IF el.found THEN el.text
       ELSE IF StartsWithPipe(html) THEN FirstKeyword(html)
       ELSE << >>

\* The two transport shapes of one fragment: the body of a full page, and the
\* MicrosoftAjax delta |len|updatePanel|panelId|len|fragment| around it.
FullPage(frag) == <<frag>>

DeltaWrap(frag) == <<<< >>, Lit("1"), Lit("updatePanel"), Lit("lblMessage"), Lit("18"), frag, << >>>>

\* A delta that carries, after the updatePanel entry, a pageTitle entry
\* |len|pageTitle||title| with the words of the page's title.
DeltaTitled(frag, t) ==
    <<<< >>, Lit("1"), Lit("updatePanel"), Lit("lblMessage"), Lit("18"), frag,
      Lit("0"), Lit("pageTitle"), << >>, <<[id |-> "", text |-> t]>>, << >>>>

(***************************************************************************)
(* State.                                                                  *)
(***************************************************************************)
VARIABLES
    script,       \* which script runs: "pw", "http", "wr" or "sf"
    input,        \* the records of the input file, in file order
    rows,         \* the list the device loop iterates: indices into input
    idx,          \* position of the loop in rows
    pc,           \* position of the run
    ledger,       \* the rows written to the results ledger, in order
    called,       \* the input records on whose behalf a network call was made
    issued,       \* the hidden-field token of the most recent server response
    dom,          \* the page: hidden-field token, status text, controls, tables
    hidden,       \* the token held by the script's captured state dict
    lastPost,     \* the last postback sent to the server
    schedPosts,   \* schedule postbacks sent for the current device
    searchSt,     \* the current device's search: "none", "issued", "answered",
                  \* "rejected" (answered by a stale-state rejection), or
                  \* "denied" (answered by a 401)
    sel,          \* dom_submit_schedule: position of the loop over selectors
    attempts,     \* the submission strategies tried for the current device
    outcome,      \* how the last tried strategy ended
    clicked,      \* dom_submit_schedule's flag of the same name
    tasks,        \* the two wait tasks of the last click's race
    searchRes,    \* (code_s, status_s) of the current device
    submitRes,    \* (code_c, status_c), or handle_row's returned status
    auth,         \* "denied" once the server refused the session for the device
    errors,       \* the entries record_error wrote to the error ledger
    fragment,     \* SpecParse: the status fragment the server renders
    parser,       \* SpecParse: the parser under test
    fullText,     \* SpecParse: parse of the fragment sent as a full page
    deltaText,    \* SpecParse: parse of the fragment sent inside a delta
    parsed,       \* SpecParse: the transport shapes parsed so far
    title,        \* SpecParse: the page title a delta carries beside the fragment
    titledText,   \* SpecParse: parse of the delta that carries the title
    resolver,     \* SpecPolicy: the script that resolves the schedule values
    devState,     \* SpecPolicy: the state column of the device
    prefTime,     \* SpecPolicy: the configured FIRMWARE_TIME_VALUE
    daysMin,      \* SpecPolicy: the configured FIRMWARE_DAYS_MIN
    daysMax,      \* SpecPolicy: the configured FIRMWARE_DAYS_MAX
    midnight,     \* SpecPolicy: the day changes between the two reads of now()
    timeOptions,  \* SpecPolicy: the options of the live time dropdown
    tzOptions,    \* SpecPolicy: the options of the live timezone dropdown
    polPc,        \* SpecPolicy: position in the schedule step of the device
    chosen,       \* SpecPolicy: the date, time and timezone the script holds
    applied,      \* SpecPolicy: the values the three page controls hold
    logged        \* SpecPolicy: the date, time, timezone of the ledger row

VARIABLES
    headers,      \* SpecInput: the spelling of the serial and product headers
    csv,          \* SpecInput: the data rows of the input CSV file
    queue,        \* SpecInput: the rows load_rows returned, not yet handled
    handled,      \* SpecInput: the rows handled, each with its logged status
    inPc,         \* SpecInput: position of run
    workbook,     \* SpecJob: the data rows of the input workbook
    maxRowsArg,   \* SpecJob: --max-rows
    mutateInput,  \* SpecJob: --mutate-input
    jobRows,      \* SpecJob: the rows read_rules_from_xlsx returned
    jobIdx,       \* SpecJob: position of the loop of run_job
    processedCount,   \* SpecJob: run_job's counter of the same name
    keptUnprocessed,  \* SpecJob: run_job's list of the same name
    completed,    \* SpecJob: the rows appended to the Completed ledger
    jobPc,        \* SpecJob: position of run_job
    sessScript,   \* SpecSession: the script that runs
    store,        \* SpecSession: storage_state.json exists
    work,         \* SpecSession: the input rows not yet handled
    outFile,      \* SpecSession: the rows the results ledger file holds
    readable,     \* SpecSession: the ledger file parses (JSON ledger)
    browser,      \* SpecSession: the browser: "none", "open", "closed"
    context,      \* SpecSession: the browser context, likewise
    sent,         \* SpecSession: requests sent to the server for devices
    sessPc,       \* SpecSession: position of main / run / run_job
    pbScript,     \* SpecPayload: the script that builds the postback
    pageFields,   \* SpecPayload: the hidden inputs of the page, by name
    captured,     \* SpecPayload: the state extracted from the page
    form,         \* SpecPayload: the payload built for the search action
    echoed,       \* SpecPayload: the state extracted from the echo of the payload
    pbPc          \* SpecPayload: position in the round trip

inputVars == <<headers, csv, queue, handled, inPc>>

jobVars == <<workbook, maxRowsArg, mutateInput, jobRows, jobIdx, processedCount,
             keptUnprocessed, completed, jobPc>>

sessionVars == <<sessScript, store, work, outFile, readable, browser, context, sent, sessPc>>

payloadVars == <<pbScript, pageFields, captured, form, echoed, pbPc>>

auxVars == <<inputVars, jobVars, sessionVars, payloadVars>>

runVars == <<script, input, rows, idx, pc, ledger, called, issued, dom, hidden, lastPost,
             schedPosts, searchSt, sel, attempts, outcome, clicked, tasks, searchRes,
             submitRes, auth, errors>>

parseVars == <<fragment, parser, fullText, deltaText, parsed, title, titledText>>

policyVars == <<resolver, devState, prefTime, daysMin, daysMax, midnight, timeOptions,
                tzOptions, polPc, chosen, applied, logged>>

mainVars == <<runVars, parseVars, policyVars>>

vars == <<mainVars, auxVars>>

Scripts == {"pw", "http", "wr", "sf"}

\* A record of the input after normalize_row: stripped serial and product code.
Records == [serial : {"", "SN"}, product : {"", "PC"}]

\* Actionable with the guard written `if not serial and not product`.
ActionableEither(r) == r.serial # "" \/ r.product # ""

\* `if not serial or not product: continue`, negated: the record is actionable.
Actionable(r) == r.serial # "" /\ r.product # ""

\* The selectors list of dom_submit_schedule, by position, and the manual
\* form submit that follows it.
NumSelectors == 8

Selectors == [s \in 1..NumSelectors |-> s]

ManualPostback == NumSelectors + 1

NoTasks == [nav |-> "none", msg |-> "none"]

NoResult == [code |-> 0, text |-> << >>]

NoPost == [dev |-> 0, kind |-> "none", vs |-> 0, latest |-> 0, by |-> 0, search |-> "none"]

BlankPage == [vs |-> 0, msg |-> << >>, ctrl |-> FALSE, table |-> FALSE, upgraded |-> FALSE]

\* The status texts the server shows in the page's status element.
PageMessages == {<<"Success">>, <<"Cannot">>}

\* The bodies the server answers a search POST with.
SearchBodies == {FullPage(<< >>),
                 DeltaWrap(<<[id |-> "MainContent_lblMessage", text |-> <<"Success">>]>>),
                 DeltaWrap(<<[id |-> "", text |-> <<"Cannot">>]>>)}

HttpCodes == {200, 500}

\* The answer of the server to a postback whose view state or event
\* validation it does not accept: HTTP 500 and the error entry
\* |0|error|500|Invalid ...| of a delta.
StaleCode == 500

StaleBody == <<<< >>, Lit("0"), Lit("error"), Lit("500"), Lit("Invalid"), << >>>>

\* webforms_replay.parse_result: the first element, in document order, that
\* matches one of the three status selectors.
ParseResult(body) ==
    LET doc == Flatten(body)
        hits == {i \in 1..Len(doc) : \E k \in 1..Len(StatusSelectors) : doc[i].id = StatusSelectors[k]}
    IN IF hits = {} THEN << >>
       ELSE doc[CHOOSE i \in hits : \A j \in hits : i <= j].text

ParseFor(sc, body) ==
    CASE sc = "pw" -> ParseStatusFromHtml(body)
      [] sc = "http" -> ParseStatus(body)
      [] OTHER -> ParseResult(body)

\* The input record the loop is at.
Cur == rows[idx]

Called == called \cup {Cur}

\* An exception that leaves the device's processing: the three replay scripts
\* have no handler inside the loop; schedule_firmware.run catches Exception.
Raised == IF script = "sf" THEN "sf_except" ELSE "aborted"

\* A ledger row, by the columns a device's outcome is read from: the record it
\* is for, the Status column (sf), and the HTTP status and status text of the
\* device's last step (pw: the schedule step; http, wr: the search).
RowOf(status, res) == [dev |-> Cur, status |-> status, code |-> res.code, text |-> res.text]

AllIndices == [i \in 1..Len(input) |-> i]

RECURSIVE ActionableFrom(_)
ActionableFrom(i) ==
    IF i > Len(input) THEN << >>
    ELSE (IF Actionable(input[i]) THEN <<i>> ELSE << >>) \o ActionableFrom(i + 1)

(***************************************************************************)
(* The scheduling policy: date, time and timezone of a schedule action.    *)
(* A date is a day number and the format it is written in; an option of a  *)
(* dropdown is its value attribute and its label, both stripped; a select  *)
(* control is its option list and the index of the selected option (0: no  *)
(* option is selected, the control's value is "").                         *)
(***************************************************************************)
MaxOptions == 2

\* No date yet.
NoDate == [day |-> 0 - 1, fmt |-> "none"]

NoValues == [date |-> NoDate, time |-> "none", tz |-> "none"]

\* strftime("%Y-%m-%d") of a day, and the dd/MM/yyyy rewrite of it.
IsoDate(d) == [day |-> d, fmt |-> "iso"]

DmyDate(d) == [day |-> d, fmt |-> "dmy"]

\* The defaults of FIRMWARE_DAYS_MIN and FIRMWARE_DAYS_MAX, which are also
\* the literals of pick_random_schedule_date.
DefaultDaysMin == 3

DefaultDaysMax == 6

\* The values the two day offsets are configured to.
DayOffsets == DefaultDaysMin..DefaultDaysMax

\* The day of the first datetime.now() of a call; the second read is the same
\* day, or the next when midnight passes in between.
Today == 0

SecondRead(m) == IF m THEN Today + 1 ELSE Today

\* pick_schedule_date: the dates random.randint(0, max(0, span)) can yield.
PickScheduleDate(mn, mx, m) ==
    LET start == Today + mn
        end == SecondRead(m) + mx
        span == end - start
    IN {start + offset : offset \in 0..(IF span > 0 THEN span ELSE 0)}

\* pick_random_schedule_date: random.randint(0, span) over the fixed offsets.
PickRandomScheduleDate(m) ==
    LET start == Today + DefaultDaysMin
        end == SecondRead(m) + DefaultDaysMax
        span == end - start
    IN {start + offset : offset \in 0..span}

ALLOWED_TIME_OPTIONS ==
    <<[value |-> "00", label |-> "12 AM"], [value |-> "01", label |-> "01 AM"],
      [value |-> "02", label |-> "02 AM"], [value |-> "03", label |-> "03 AM"],
      [value |-> "04", label |-> "04 AM"], [value |-> "05", label |-> "05 AM"],
      [value |-> "06", label |-> "06 AM"], [value |-> "07", label |-> "07 AM"],
      [value |-> "19", label |-> "07 PM"], [value |-> "20", label |-> "08 PM"],
      [value |-> "21", label |-> "09 PM"], [value |-> "22", label |-> "10 PM"],
      [value |-> "23", label |-> "11 PM"]>>

\* PREFERRED_TIME_VALUE, PREFERRED_TIME_LABEL = ALLOWED_TIME_OPTIONS[0]
PreferredTime == ALLOWED_TIME_OPTIONS[1]

\* _normalise_time_label: whitespace collapsed, upper case.
NormaliseTimeLabel(l) ==
    CASE l = "12 am" -> "12 AM"
      [] l = "12  AM" -> "12 AM"
      [] OTHER -> l

\* `"select" in label.lower()`
HasSelect(l) == l \in {"Select time", "Select timezone"}

\* The option lists read from a dropdown: `if not value and "select" in
\* label.lower(): continue`.
ReadOptions(opts) == SelectSeq(opts, LAMBDA o : ~(o.value = "" /\ HasSelect(o.label)))

NoChoice == [value |-> "none", label |-> "none"]

\* The test of pick_time_option's inner loop for allowed option a, option o.
TimeMatches(a, o) ==
    LET candidate == IF o.label # "" THEN o.label ELSE a.label
    IN \/ NormaliseTimeLabel(candidate) = NormaliseTimeLabel(a.label)
       \/ (o.value # "" /\ o.value = a.value)

\* pick_time_option: the first allowed option, in the order of the allow-list,
\* that an option of the list matches; NoChoice for None.
PickTimeOption(options) ==
    LET cleaned == SelectSeq(options, LAMBDA o : ~(o.value = "" /\ o.label = ""))
        hits == {p \in (1..Len(ALLOWED_TIME_OPTIONS)) \X (1..Len(cleaned)) :
                    TimeMatches(ALLOWED_TIME_OPTIONS[p[1]], cleaned[p[2]])}
    IN IF hits = {} THEN NoChoice
       ELSE LET p == CHOOSE h \in hits :
                        \A g \in hits : h[1] < g[1] \/ (h[1] = g[1] /\ h[2] <= g[2])
                a == ALLOWED_TIME_OPTIONS[p[1]]
                o == cleaned[p[2]]
            IN [value |-> IF o.value # "" THEN o.value ELSE a.value,
                label |-> IF o.label # "" THEN o.label ELSE a.label]

\* The first option of a select with the given value / label; 0 when none.
FirstWithValue(opts, v) ==
    LET hits == {i \in 1..Len(opts) : opts[i].value = v}
    IN IF hits = {} THEN 0 ELSE CHOOSE i \in hits : \A j \in hits : i <= j

FirstWithLabel(opts, l) ==
    LET hits == {i \in 1..Len(opts) : opts[i].label = l}
    IN IF hits = {} THEN 0 ELSE CHOOSE i \in hits : \A j \in hits : i <= j

\* The value and label of the selected option of a select (el.value, and the
\* text of option:checked).
ValueAt(opts, i) == IF i = 0 THEN "" ELSE opts[i].value

LabelAt(opts, i) == IF i = 0 THEN "" ELSE opts[i].label

\* ALLOWED_TIME_LABEL_BY_VALUE.get(v, PREFERRED_TIME_LABEL)
AllowedLabelByValue(v) ==
    LET hits == {i \in 1..Len(ALLOWED_TIME_OPTIONS) : ALLOWED_TIME_OPTIONS[i].value = v}
    IN IF hits = {} THEN PreferredTime.label
       ELSE ALLOWED_TIME_OPTIONS[CHOOSE i \in hits : TRUE].label

\* The three selection attempts of select_time and select_timezone for a
\* target value and label: select_option(value=), on its error
\* select_option(label=), on its error the script that sets el.value (which
\* leaves no option selected when none has the value).
SelectOption(opts, value, label) ==
    IF FirstWithValue(opts, value) # 0 THEN FirstWithValue(opts, value)
    ELSE FirstWithLabel(opts, label)

\* select_time on the live dropdown: failed when pick_time_option finds no
\* option (RuntimeError), else the value and label returned and the option
\* left selected.
SelectTime(opts) ==
    LET choice == PickTimeOption(ReadOptions(opts))
        target_value == IF choice.value # "" THEN choice.value ELSE PreferredTime.value
        target_label == IF choice.label # "" THEN choice.label
                        ELSE AllowedLabelByValue(target_value)
        at == SelectOption(opts, target_value, target_label)
        selected_value == IF ValueAt(opts, at) # "" THEN ValueAt(opts, at) ELSE target_value
        selected_label == IF LabelAt(opts, at) # "" THEN LabelAt(opts, at) ELSE target_label
    IN IF choice = NoChoice THEN [ok |-> FALSE, value |-> "", label |-> "", at |-> 0]
       ELSE [ok |-> TRUE, value |-> selected_value, label |-> selected_label, at |-> at]

\* setVal of dom_submit_schedule on a select: el.value = val selects the first
\* option with that value, or none.
SetVal(opts, val) == FirstWithValue(opts, val)

Canberra == "(UTC+11: 00) Canberra, Melbourne, Sydney"

\* STATE_TZ of the Playwright replay, and its default.
STATE_TZ ==
    [s \in {"ACT", "NSW", "VIC", "TAS", "QLD", "SA", "NT"} |->
        CASE s = "QLD" -> "+10:00"
          [] s = "SA" -> "+10:30"
          [] s = "NT" -> "+09:30"
          [] OTHER -> "+11:00"]

DefaultOffset == "+11:00"

\* STATE_TIMEZONE of schedule_firmware: value and label.
STATE_TIMEZONE ==
    [s \in {"NT", "SA", "ACT", "VIC", "NSW", "QLD", "TAS"} |->
        CASE s = "NT" -> [value |-> "+09:30", label |-> "(UTC+09: 30) Darwin"]
          [] s = "SA" -> [value |-> "+10:30", label |-> "(UTC+10: 30) Adelaide"]
          [] s = "QLD" -> [value |-> "+10:00", label |-> "(UTC+10: 00) Brisbane"]
          [] s = "TAS" -> [value |-> "+11:00", label |-> "(UTC+11: 00) Hobart"]
          [] OTHER -> [value |-> "+11:00", label |-> Canberra]]

\* state.upper() of the modelled state columns.
UpperState(st) == IF st = "vic" THEN "VIC" ELSE st

\* timezone_for_state
TimezoneForState(st) ==
    IF UpperState(st) \in DOMAIN STATE_TZ THEN STATE_TZ[UpperState(st)] ELSE DefaultOffset

\* _normalise_timezone_label: whitespace collapsed, none around ":", upper case.
NormaliseTimezoneLabel(l) ==
    CASE l = Canberra -> "(UTC+11:00) CANBERRA, MELBOURNE, SYDNEY"
      [] l = "(UTC+11:00) canberra, melbourne, sydney" -> "(UTC+11:00) CANBERRA, MELBOURNE, SYDNEY"
      [] l = "(UTC+11: 00) Hobart" -> "(UTC+11:00) HOBART"
      [] l = "(UTC+10: 00) Brisbane" -> "(UTC+10:00) BRISBANE"
      [] l = "(UTC+09: 30) Darwin" -> "(UTC+09:30) DARWIN"
      [] l = "(UTC+10: 30) Adelaide" -> "(UTC+10:30) ADELAIDE"
      [] l = "Select timezone" -> "SELECT TIMEZONE"
      [] OTHER -> l

\* `(o.text||'').toUpperCase().includes(needle.toUpperCase())` for the needle
\* "Canberra, Melbourne, Sydney".
IncludesHint(l) == NormaliseTimezoneLabel(l) = "(UTC+11:00) CANBERRA, MELBOURNE, SYDNEY"

FirstIncludingHint(opts) ==
    LET hits == {i \in 1..Len(opts) : IncludesHint(opts[i].label)}
    IN IF hits = {} THEN 0 ELSE CHOOSE i \in hits : \A j \in hits : i <= j

FirstNonEmptyValue(opts) ==
    LET hits == {i \in 1..Len(opts) : opts[i].value # ""}
    IN IF hits = {} THEN 0 ELSE CHOOSE i \in hits : \A j \in hits : i <= j

FirstNormalisedLabel(opts, l) ==
    LET hits == {i \in 1..Len(opts) : NormaliseTimezoneLabel(opts[i].label) = NormaliseTimezoneLabel(l)}
    IN IF hits = {} THEN 0 ELSE CHOOSE i \in hits : \A j \in hits : i <= j

\* select_timezone_on_page: exact value, then the label hint, then the first
\* option with a value; the value returned and the option left selected.
SelectTimezoneOnPage(opts, desired, hinted) ==
    LET exact == FirstWithValue(opts, desired)
        matched_val == IF hinted THEN ValueAt(opts, FirstIncludingHint(opts)) ELSE ""
        fallback == FirstNonEmptyValue(opts)
    IN IF exact # 0 THEN [value |-> desired, at |-> exact]
       ELSE IF matched_val # ""
       THEN [value |-> matched_val, at |-> FirstWithValue(opts, matched_val)]
       ELSE IF fallback # 0
       THEN [value |-> ValueAt(opts, fallback), at |-> FirstWithValue(opts, ValueAt(opts, fallback))]
       ELSE [value |-> desired, at |-> 0]

\* select_timezone of schedule_firmware for a mapped state: the selection
\* attempts, the second assignment of the value, the re-selection by
\* normalised label; the (value, label) returned and the option left selected.
SelectTimezone_sf(opts, target) ==
    LET first == SelectOption(opts, target.value, target.label)
        second == IF ValueAt(opts, first) # target.value
                  THEN FirstWithValue(opts, target.value) ELSE first
        label2 == IF second # 0 THEN LabelAt(opts, second) ELSE target.label
        relabel == /\ label2 # ""
                   /\ NormaliseTimezoneLabel(label2) # NormaliseTimezoneLabel(target.label)
        match == FirstNormalisedLabel(opts, target.label)
        third == IF relabel /\ match # 0 THEN match ELSE second
        label3 == IF relabel /\ third # 0 THEN LabelAt(opts, third) ELSE label2
    IN [value |-> IF ValueAt(opts, third) # "" THEN ValueAt(opts, third) ELSE target.value,
        label |-> label3, at |-> third]

\* The options the live dropdowns are built from, and the dropdowns a page
\* shows.
TimePool ==
    {[value |-> "00", label |-> "12 AM"], [value |-> "03", label |-> "03 AM"],
     [value |-> "12", label |-> "12 am"], [value |-> "08", label |-> "08 AM"],
     [value |-> "", label |-> "Select time"]}

TzPool ==
    {[value |-> "+11:00", label |-> Canberra], [value |-> "+11:00", label |-> "(UTC+11: 00) Hobart"],
     [value |-> "+10:00", label |-> "(UTC+10: 00) Brisbane"],
     [value |-> "+10:00", label |-> "(UTC+11:00) canberra, melbourne, sydney"],
     [value |-> "", label |-> "Select timezone"]}

DefaultTimeOptions == <<[value |-> "00", label |-> "12 AM"], [value |-> "03", label |-> "03 AM"]>>

DefaultTzOptions == <<[value |-> "+11:00", label |-> Canberra], [value |-> "+10:00", label |-> "(UTC+10: 00) Brisbane"]>>

DeviceStates == {"VIC", "vic", "QLD", "WA", ""}

TimeValues == {"03", "12"}

NoChosen == [date |-> NoDate, time |-> "none", timeLabel |-> "", tz |-> "none", tzLabel |-> "",
             intended |-> "none"]

PolicyIdle ==
    /\ resolver = "none"
    /\ devState = "VIC"
    /\ prefTime = "03"
    /\ daysMin = DefaultDaysMin
    /\ daysMax = DefaultDaysMax
    /\ midnight = FALSE
    /\ timeOptions = DefaultTimeOptions
    /\ tzOptions = DefaultTzOptions
    /\ polPc = "idle"
    /\ chosen = NoChosen
    /\ applied = NoValues
    /\ logged = NoValues

(***************************************************************************)
(* The run.                                                                *)
(***************************************************************************)
RunInit ==
    /\ script \in Scripts
    /\ input \in SeqsUpTo(Records, MaxRows)
    /\ rows = << >>
    /\ idx = 1
    /\ pc = "start"
    /\ ledger = << >>
    /\ called = {}
    /\ issued = 0
    /\ dom = BlankPage
    /\ hidden = 0
    /\ lastPost = NoPost
    /\ schedPosts = 0
    /\ searchSt = "none"
    /\ sel = 1
    /\ attempts = << >>
    /\ outcome = "none"
    /\ clicked = FALSE
    /\ tasks = NoTasks
    /\ searchRes = NoResult
    /\ submitRes = NoResult
    /\ auth = "ok"
    /\ errors = << >>

ParseIdle ==
    /\ fragment = << >>
    /\ parser = "none"
    /\ fullText = << >>
    /\ deltaText = << >>
    /\ parsed = {}
    /\ title = << >>
    /\ titledText = << >>

\* No CSV input is being handled.
NoHeaders == [serial |-> "", product |-> ""]

InputIdle ==
    /\ headers = NoHeaders
    /\ csv = << >>
    /\ queue = << >>
    /\ handled = << >>
    /\ inPc = "idle"

\* max_rows is None.
NoLimit == [given |-> FALSE, n |-> 0]

JobIdle ==
    /\ workbook = << >>
    /\ maxRowsArg = NoLimit
    /\ mutateInput = FALSE
    /\ jobRows = << >>
    /\ jobIdx = 1
    /\ processedCount = 0
    /\ keptUnprocessed = << >>
    /\ completed = << >>
    /\ jobPc = "idle"

SessionIdle ==
    /\ sessScript = "none"
    /\ store = FALSE
    /\ work = 0
    /\ outFile = << >>
    /\ readable = TRUE
    /\ browser = "none"
    /\ context = "none"
    /\ sent = 0
    /\ sessPc = "idle"

PayloadIdle ==
    /\ pbScript = "none"
    /\ pageFields = << >>
    /\ captured = << >>
    /\ form = << >>
    /\ echoed = << >>
    /\ pbPc = "idle"

AuxIdle == InputIdle /\ JobIdle /\ SessionIdle /\ PayloadIdle

Init == RunInit /\ ParseIdle /\ PolicyIdle /\ AuxIdle

\* main()/run() up to the device loop.  pw: launch, context, rows = all the
\* records.  http: import_cookies, rows likewise.  wr: the warm-up GET, then
\* the reader over every record.  sf: load_rows keeps the records with serial
\* and product, then the page is opened.  A failure here is not a device's;
\* run (sf) prints its authentication message for a PlaywrightError that
\* names ERR_INVALID_AUTH_CREDENTIALS and re-raises any other.
Start ==
    /\ pc = "start"
    /\ rows' = IF script = "sf" THEN ActionableFrom(1) ELSE AllIndices
    /\ \E ok \in BOOLEAN :
         IF script \in {"pw", "http"} \/ (script = "sf" /\ rows' = << >>)
         THEN /\ ok
              /\ pc' = IF rows' = << >> THEN "done" ELSE "loop"
              /\ UNCHANGED <<issued, dom, hidden>>
         ELSE IF ok
         THEN /\ pc' = "loop"
              /\ issued' = issued + 1
              /\ hidden' = IF script = "wr" THEN issued' ELSE hidden
              /\ dom' = IF script = "sf" THEN [BlankPage EXCEPT !.vs = issued'] ELSE dom
         ELSE /\ pc' \in (IF script = "sf" THEN {"start_failed", "unauthorized"}
                         ELSE {"start_failed"})
              /\ UNCHANGED <<issued, dom, hidden>>
    /\ UNCHANGED <<script, auth, errors, input, idx, ledger, called, lastPost, schedPosts, searchSt, sel,
                   attempts, outcome, clicked, tasks, searchRes, submitRes, parseVars, policyVars, auxVars>>

FirstStep == IF script = "sf" THEN "sf_fill" ELSE "get_state"

\* The head of the device loop: the end of the rows, the skip of a record
\* without serial or product, or the start of the device's steps.  The
\* variables that observe one device (lastPost, schedPosts, tasks, ...) start
\* afresh with each device.  The hidden-field tokens are opaque, only their
\* equality matters: they are renumbered here so that the latest is 0.
NextItem ==
    /\ pc = "loop"
    /\ IF idx > Len(rows)
       THEN /\ pc' = "done"
            /\ UNCHANGED <<idx, issued, dom, hidden, lastPost, schedPosts, searchSt, sel,
                           attempts, outcome, clicked, tasks, searchRes, submitRes, auth>>
       ELSE IF script # "sf" /\ ~Actionable(input[Cur])
       THEN /\ idx' = idx + 1
            /\ UNCHANGED <<pc, issued, dom, hidden, lastPost, schedPosts, searchSt, sel,
                           attempts, outcome, clicked, tasks, searchRes, submitRes, auth>>
       ELSE /\ pc' = FirstStep
            /\ issued' = 0
            /\ dom' = [dom EXCEPT !.vs = @ - issued]
            /\ hidden' = hidden - issued
            /\ lastPost' = NoPost
            /\ schedPosts' = 0
            /\ searchSt' = "none"
            /\ sel' = 1
            /\ attempts' = << >>
            /\ outcome' = "none"
            /\ clicked' = FALSE
            /\ tasks' = NoTasks
            /\ searchRes' = NoResult
            /\ submitRes' = NoResult
            /\ auth' = "ok"
            /\ UNCHANGED idx
    /\ UNCHANGED <<script, errors, input, rows, ledger, called, parseVars, policyVars, auxVars>>

\* The HTTP status of a response that refuses the session.
Unauthorized == 401

\* get_state: the GET (pw: page.goto) that captures the hidden fields.  A 401
\* answer: get_state (http) raises PermissionError; r0.raise_for_status() (wr)
\* raises the HTTPStatusError of any 4xx or 5xx; page.goto (pw) returns, and
\* the fields are read from the page of the answer, which has no controls.
GetState ==
    /\ pc = "get_state"
    /\ called' = Called
    /\ \/ /\ issued' = issued + 1
          /\ hidden' = issued'
          /\ \E c \in BOOLEAN :
               dom' = IF script = "pw" THEN [BlankPage EXCEPT !.vs = issued', !.ctrl = c]
                      ELSE dom
          /\ pc' = "post_search"
          /\ UNCHANGED auth
       \/ /\ pc' = Raised
          /\ UNCHANGED <<issued, hidden, dom, auth>>
       \/ /\ auth' = "denied"
          /\ IF script = "pw"
             THEN /\ issued' = issued + 1
                  /\ hidden' = issued'
                  /\ dom' = [BlankPage EXCEPT !.vs = issued']
                  /\ pc' = "post_search"
             ELSE /\ pc' = IF script = "http" THEN "unauthorized" ELSE Raised
                  /\ UNCHANGED <<issued, hidden, dom>>
    /\ UNCHANGED <<script, errors, input, rows, idx, ledger, lastPost, schedPosts, searchSt, sel,
                   attempts, outcome, clicked, tasks, searchRes, submitRes, parseVars, policyVars, auxVars>>

\* post_search / make_form + post: the search postback built from the captured
\* state, sent by in-page fetch (pw) or by the HTTP client; the answer is
\* parsed.  The fetch leaves the DOM as it was.  The server may answer with a
\* stale-state rejection (it decides: it may have been recycled since the
\* GET), or refuse the session with a 401; post_search returns the status
\* code and the body of either, and the script goes on like after any other.
PostSearch ==
    /\ pc = "post_search"
    /\ called' = Called
    /\ lastPost' = [dev |-> Cur, kind |-> "search", vs |-> hidden, latest |-> issued,
                    by |-> 0, search |-> searchSt]
    /\ \/ \E code \in HttpCodes, body \in SearchBodies :
            /\ issued' = issued + 1
            /\ searchSt' = "answered"
            /\ searchRes' = [code |-> code, text |-> ParseFor(script, body)]
            /\ pc' = IF script = "pw" THEN "wait_controls" ELSE "write"
            /\ UNCHANGED auth
       \/ /\ searchSt' = "rejected"
          /\ searchRes' = [code |-> StaleCode, text |-> ParseFor(script, StaleBody)]
          /\ pc' = IF script = "pw" THEN "wait_controls" ELSE "write"
          /\ UNCHANGED <<issued, auth>>
       \/ /\ searchSt' = "denied"
          /\ auth' = "denied"
          /\ searchRes' = [code |-> Unauthorized, text |-> ParseFor(script, FullPage(<< >>))]
          /\ pc' = IF script = "pw" THEN "wait_controls" ELSE "write"
          /\ UNCHANGED issued
       \/ /\ searchSt' = "issued"
          /\ pc' = Raised
          /\ UNCHANGED <<issued, searchRes, auth>>
    /\ UNCHANGED <<script, errors, input, rows, idx, ledger, dom, hidden, schedPosts, sel, attempts,
                   outcome, clicked, tasks, submitRes, parseVars, policyVars, auxVars>>

\* wait_for_schedule_controls_enabled: the three controls must be enabled in
\* the DOM the page holds, or the wait raises its timeout.
WaitControls ==
    /\ pc = "wait_controls"
    /\ pc' = IF dom.ctrl THEN "select_tz" ELSE Raised
    /\ UNCHANGED <<script, auth, errors, input, rows, idx, ledger, called, issued, dom, hidden, lastPost,
                   schedPosts, searchSt, sel, attempts, outcome, clicked, tasks, searchRes,
                   submitRes, parseVars, policyVars, auxVars>>

\* pick_schedule_date, timezone_for_state, select_timezone_on_page: the page
\* called succeed or raise.
SelectTimezone ==
    /\ pc = "select_tz"
    /\ \E ok \in BOOLEAN : pc' = IF ok THEN "fill" ELSE Raised
    /\ UNCHANGED <<script, auth, errors, input, rows, idx, ledger, called, issued, dom, hidden, lastPost,
                   schedPosts, searchSt, sel, attempts, outcome, clicked, tasks, searchRes,
                   submitRes, parseVars, policyVars, auxVars>>

\* dom_submit_schedule up to the selectors loop: force-enable, fill, verify.
FillForm ==
    /\ pc = "fill"
    /\ \E ok \in BOOLEAN : pc' = IF ok THEN "chain" ELSE Raised
    /\ sel' = 1
    /\ clicked' = FALSE
    /\ UNCHANGED <<script, auth, errors, input, rows, idx, ledger, called, issued, dom, hidden, lastPost,
                   schedPosts, searchSt, attempts, outcome, tasks, searchRes, submitRes,
                   parseVars, policyVars, auxVars>>

\* How one pass of the selectors loop can end.  absent: count() == 0;
\* not_visible: wait_for raises; disabled: is_disabled(); click_failed: click
\* raises before the click is dispatched; click_raised: click raises after it
\* dispatched the click (the navigation it waits for times out); clicked.
SelectorOutcomes == {"absent", "not_visible", "disabled", "click_failed", "click_raised", "clicked"}

Dispatches(out) == out \in {"click_raised", "clicked"}

\* ChainNext with the `break` after the click left out.
ChainNextNoBreak(s, out) == s + 1

\* The loop position after a pass: `break` after a click, the next selector
\* after `continue`.
ChainNext(s, out) == IF out = "clicked" THEN NumSelectors + 1 ELSE s + 1

\* The schedule postback the page sends: it carries the DOM's hidden fields.
SchedulePost(by) ==
    [dev |-> Cur, kind |-> "schedule", vs |-> dom.vs, latest |-> issued, by |-> by,
     search |-> searchSt]

\* One pass of `for sel in selectors`, up to and including the click; after
\* the loop, the manual postback when nothing was clicked.
TrySelector ==
    /\ pc = "chain"
    /\ IF sel > NumSelectors
       THEN /\ pc' = IF clicked THEN "poll" ELSE "manual"
            /\ UNCHANGED <<attempts, outcome, lastPost, schedPosts, called, tasks, sel>>
       ELSE \E out \in SelectorOutcomes :
            /\ attempts' = Append(attempts, Selectors[sel])
            /\ outcome' = out
            /\ IF Dispatches(out)
               THEN /\ lastPost' = SchedulePost(Selectors[sel])
                    /\ schedPosts' = schedPosts + 1
                    /\ called' = Called
               ELSE UNCHANGED <<lastPost, schedPosts, called>>
            /\ IF out = "clicked"
               THEN /\ tasks' = [nav |-> "pending", msg |-> "pending"]
                    /\ pc' = "race"
                    /\ UNCHANGED sel
               ELSE /\ sel' = ChainNext(sel, out)
                    /\ UNCHANGED <<tasks, pc>>
    /\ UNCHANGED <<script, auth, errors, input, rows, idx, ledger, issued, dom, hidden, searchSt, clicked,
                   searchRes, submitRes, parseVars, policyVars, auxVars>>

\* The states asyncio.wait(..., FIRST_COMPLETED) can return in: a task is done
\* (its event came), timeout (its own 15000 ms wait raised) or still pending.
\* Both waits carry the same bound, so one cannot time out after the other
\* finished: the return comes first.
RaceResults ==
    {[nav |-> "done", msg |-> "pending"], [nav |-> "pending", msg |-> "done"],
     [nav |-> "done", msg |-> "done"], [nav |-> "timeout", msg |-> "pending"],
     [nav |-> "pending", msg |-> "timeout"], [nav |-> "timeout", msg |-> "timeout"]}

\* The server's answer reaching the page: new hidden fields, and the status
\* text the page then shows.
Answered(m) == [dom EXCEPT !.vs = issued + 1, !.msg = m]

\* The race after the click, as far as `clicked = True; break`.
Race ==
    /\ pc = "race"
    /\ \E res \in RaceResults :
         /\ tasks' = res
         /\ IF res.msg = "done"
            THEN /\ \E m \in PageMessages : dom' = Answered(m)
                 /\ issued' = issued + 1
            ELSE IF res.nav = "done"
            THEN /\ \E m \in PageMessages \cup {<< >>} : dom' = Answered(m)
                 /\ issued' = issued + 1
            ELSE UNCHANGED <<dom, issued>>
    /\ clicked' = TRUE
    /\ sel' = ChainNext(sel, outcome)
    /\ pc' = "chain"
    /\ UNCHANGED <<script, auth, errors, input, rows, idx, ledger, called, hidden, lastPost, schedPosts,
                   searchSt, attempts, outcome, searchRes, submitRes, parseVars, policyVars, auxVars>>

\* `if not clicked`: __EVENTTARGET is set and the form submitted from script,
\* then the load state is awaited with its timeout swallowed.
ManualSubmit ==
    /\ pc = "manual"
    /\ attempts' = Append(attempts, ManualPostback)
    /\ \E out \in {"submitted", "no_form", "raised"} :
         /\ outcome' = out
         /\ IF out = "submitted"
            THEN /\ lastPost' = SchedulePost(ManualPostback)
                 /\ schedPosts' = schedPosts + 1
                 /\ called' = Called
                 /\ \/ UNCHANGED <<dom, issued>>
                    \/ /\ \E m \in PageMessages \cup {<< >>} : dom' = Answered(m)
                       /\ issued' = issued + 1
            ELSE UNCHANGED <<lastPost, schedPosts, called, dom, issued>>
         /\ pc' = IF out = "raised" THEN Raised ELSE "poll"
    /\ UNCHANGED <<script, auth, errors, input, rows, idx, ledger, hidden, searchSt, sel, clicked, tasks,
                   searchRes, submitRes, parseVars, policyVars, auxVars>>

\* The status dom_submit_schedule returns when its polling has found text m
\* (<< >>: the 60 polls found none).
PollResult(m) == [code |-> 200, text |-> m]

\* The 60 polls of read_status_safe.  A status shown by the page is returned;
\* while a schedule postback is out, its answer may still arrive meanwhile.
\* page.wait_for_timeout is outside read_status_safe's handler and may raise.
PollStatus ==
    /\ pc = "poll"
    /\ \/ /\ dom.msg # << >>
          /\ submitRes' = PollResult(dom.msg)
          /\ pc' = "write"
          /\ UNCHANGED <<dom, issued>>
       \/ /\ dom.msg = << >>
          /\ schedPosts > 0
          /\ \E m \in PageMessages :
               /\ dom' = Answered(m)
               /\ submitRes' = PollResult(m)
          /\ issued' = issued + 1
          /\ pc' = "write"
       \/ /\ dom.msg = << >>
          /\ submitRes' = PollResult(<< >>)
          /\ pc' = "write"
          /\ UNCHANGED <<dom, issued>>
       \/ /\ pc' = Raised
          /\ UNCHANGED <<dom, issued, submitRes>>
    /\ UNCHANGED <<script, auth, errors, input, rows, idx, ledger, called, hidden, lastPost, schedPosts,
                   searchSt, sel, attempts, outcome, clicked, tasks, searchRes, parseVars, policyVars, auxVars>>

\* writer.writerow of the three replay scripts, and the end of the loop body.
WriteRow ==
    /\ pc = "write"
    /\ ledger' = Append(ledger, RowOf("", IF script = "pw" THEN submitRes ELSE searchRes))
    /\ idx' = idx + 1
    /\ pc' = "loop"
    /\ UNCHANGED <<script, auth, errors, input, rows, called, issued, dom, hidden, lastPost, schedPosts,
                   searchSt, sel, attempts, outcome, clicked, tasks, searchRes, submitRes,
                   parseVars, policyVars, auxVars>>

(***************************************************************************)
(* scripts/schedule_firmware.py: handle_row and the loop of run.           *)
(***************************************************************************)
SfRow(status, msg) == RowOf(status, [code |-> 0, text |-> msg])

\* record_error: the entry of the error ledger, by device and status.
ErrorEntry(status) == [dev |-> Cur, status |-> status]

\* `message or default`: the page's status text, or the fallback text.
OrElse(msg, default) == IF msg # << >> THEN msg ELSE default

\* reset_form.  reset: the Reset button is clicked and the page comes back
\* blank.  skipped: the button is absent or disabled, or the click raised a
\* PlaywrightError (swallowed).  raised: count() raised, outside the try.
ResetOutcomes == {"reset", "skipped", "raised"}

AfterReset(out) ==
    IF out = "reset" THEN [BlankPage EXCEPT !.vs = issued + 1] ELSE dom

\* ensure_option_selected and the two fill_input called.
SfFill ==
    /\ pc = "sf_fill"
    /\ \E ok \in BOOLEAN : pc' = IF ok THEN "sf_search" ELSE Raised
    /\ UNCHANGED <<script, auth, errors, input, rows, idx, ledger, called, issued, dom, hidden, lastPost,
                   schedPosts, searchSt, sel, attempts, outcome, clicked, tasks, searchRes,
                   submitRes, parseVars, policyVars, auxVars>>

\* page.click(btnSearch), then the two waits with PlaywrightTimeoutError
\* swallowed: the search answer has arrived (the page is re-rendered) or the
\* wait timed out and the page is as it was.
SfSearch ==
    /\ pc = "sf_search"
    /\ \/ /\ pc' = Raised
          /\ UNCHANGED <<called, lastPost, searchSt, dom, issued>>
       \/ /\ called' = Called
          /\ lastPost' = [dev |-> Cur, kind |-> "search", vs |-> dom.vs, latest |-> issued,
                          by |-> 0, search |-> searchSt]
          /\ \/ /\ searchSt' = "answered"
                /\ issued' = issued + 1
                /\ \E m \in PageMessages \cup {<< >>}, t \in BOOLEAN, u \in BOOLEAN :
                     dom' = [vs |-> issued', msg |-> m, ctrl |-> FALSE, table |-> t,
                             upgraded |-> u]
                /\ pc' = "sf_check"
             \/ /\ searchSt' = "issued"
                /\ pc' = "sf_check"
                /\ UNCHANGED <<dom, issued>>
             \/ /\ searchSt' = "issued"
                /\ pc' = Raised
                /\ UNCHANGED <<dom, issued>>
    /\ UNCHANGED <<script, auth, errors, input, rows, idx, ledger, hidden, schedPosts, sel, attempts,
                   outcome, clicked, tasks, searchRes, submitRes, parseVars, policyVars, auxVars>>

\* The eligibility checks after the search: AlreadyUpgraded, NotEligible
\* (logged, then record_error and reset_form, which may raise), or on to the
\* schedule fields.
SfCheck ==
    /\ pc = "sf_check"
    /\ IF dom.upgraded
       THEN /\ ledger' = Append(ledger, SfRow("AlreadyUpgraded", <<"Device already upgraded; skipped">>))
            /\ submitRes' = [code |-> 0, text |-> <<"AlreadyUpgraded">>]
            /\ pc' = "sf_after"
            /\ UNCHANGED <<dom, issued, errors>>
       ELSE IF ~dom.table
       THEN \/ /\ pc' = Raised
               /\ UNCHANGED <<ledger, submitRes, dom, issued, errors>>
            \/ /\ ledger' = Append(ledger, SfRow("NotEligible", OrElse(dom.msg, <<"Device table not visible after search">>)))
               /\ errors' = Append(errors, ErrorEntry("NotEligible"))
               /\ \E out \in ResetOutcomes :
                    /\ dom' = AfterReset(out)
                    /\ issued' = IF out = "reset" THEN issued + 1 ELSE issued
                    /\ pc' = IF out = "raised" THEN Raised ELSE "sf_after"
               /\ submitRes' = [code |-> 0, text |-> <<"NotEligible">>]
       ELSE /\ pc' = "sf_prepare"
            /\ UNCHANGED <<ledger, submitRes, dom, issued, errors>>
    /\ UNCHANGED <<script, auth, input, rows, idx, called, hidden, lastPost, schedPosts, searchSt,
                   sel, attempts, outcome, clicked, tasks, searchRes, parseVars, policyVars, auxVars>>

\* pick_random_schedule_date, set_schedule_date, select_time, select_timezone.
SfPrepare ==
    /\ pc = "sf_prepare"
    /\ \E ok \in BOOLEAN : pc' = IF ok THEN "sf_submit" ELSE Raised
    /\ UNCHANGED <<script, auth, errors, input, rows, idx, ledger, called, issued, dom, hidden, lastPost,
                   schedPosts, searchSt, sel, attempts, outcome, clicked, tasks, searchRes,
                   submitRes, parseVars, policyVars, auxVars>>

\* The status and message handle_row logs after the click on the schedule
\* button, from the status text the page shows after the 500 ms wait.
ScheduledStatus(msg) == "Scheduled"

\* The schedule button: missing or unavailable (reset_form, then the Failed
\* row), or clicked; after the click the 500 ms wait, the status read, the
\* Scheduled row, and reset_form.
SfSubmit ==
    /\ pc = "sf_submit"
    /\ \/ \E out \in ResetOutcomes :
            /\ dom' = AfterReset(out)
            /\ issued' = IF out = "reset" THEN issued + 1 ELSE issued
            /\ IF out = "raised"
               THEN /\ pc' = Raised
                    /\ UNCHANGED <<ledger, submitRes, errors>>
               ELSE /\ ledger' = Append(ledger, SfRow("Failed", <<"Schedule button unavailable; form reset triggered">>))
                    /\ errors' = Append(errors, ErrorEntry("Failed"))
                    /\ submitRes' = [code |-> 0, text |-> <<"Failed">>]
                    /\ pc' = "sf_after"
            /\ UNCHANGED <<called, lastPost, schedPosts>>
       \/ /\ pc' = Raised
          /\ UNCHANGED <<ledger, submitRes, dom, issued, called, lastPost, schedPosts, errors>>
       \/ /\ called' = Called
          /\ lastPost' = SchedulePost(0)
          /\ schedPosts' = schedPosts + 1
          /\ UNCHANGED errors
          /\ \E shown \in {dom} \cup {[dom EXCEPT !.vs = issued + 1, !.msg = m, !.table = t] :
                                        m \in PageMessages \cup {<< >>}, t \in {dom.table, FALSE}} :
               \/ /\ pc' = Raised
                  /\ dom' = shown
                  /\ issued' = IF shown = dom THEN issued ELSE issued + 1
                  /\ UNCHANGED <<ledger, submitRes>>
               \/ /\ ledger' = Append(ledger, SfRow(ScheduledStatus(shown.msg), OrElse(shown.msg, <<"Scheduled">>)))
                  /\ submitRes' = [code |-> 0, text |-> <<ScheduledStatus(shown.msg)>>]
                  /\ \E out \in ResetOutcomes :
                       /\ dom' = IF out = "reset" THEN [BlankPage EXCEPT !.vs = issued + 2] ELSE shown
                       /\ issued' = (IF shown = dom THEN issued ELSE issued + 1)
                                    + (IF out = "reset" THEN 1 ELSE 0)
                       /\ pc' = IF out = "raised" THEN Raised ELSE "sf_after"
    /\ UNCHANGED <<script, auth, input, rows, idx, hidden, searchSt, sel, attempts, outcome,
                   clicked, tasks, searchRes, parseVars, policyVars, auxVars>>

\* run, after handle_row returned: a Scheduled device is removed from the
\* input file (which may raise inside the try), then the next row.
SfAfter ==
    /\ pc = "sf_after"
    /\ \/ /\ idx' = idx + 1
          /\ pc' = "loop"
       \/ /\ submitRes.text = <<"Scheduled">>
          /\ pc' = Raised
          /\ UNCHANGED idx
    /\ UNCHANGED <<script, auth, errors, input, rows, ledger, called, issued, dom, hidden, lastPost,
                   schedPosts, searchSt, sel, attempts, outcome, clicked, tasks, searchRes,
                   submitRes, parseVars, policyVars, auxVars>>

\* `except Exception` of run: the status read (a PlaywrightError raised by it
\* leaves the loop through the outer handler), the Failed row, record_error,
\* and reset_form with PlaywrightError swallowed.
SfExcept ==
    /\ pc = "sf_except"
    /\ \/ /\ pc' = "aborted"
          /\ UNCHANGED <<ledger, idx, dom, issued, errors>>
       \/ /\ ledger' = Append(ledger, SfRow("Failed", OrElse(dom.msg, <<"exception text">>)))
          /\ errors' = Append(errors, ErrorEntry("Failed"))
          /\ \E out \in {"reset", "skipped"} :
               /\ dom' = AfterReset(out)
               /\ issued' = IF out = "reset" THEN issued + 1 ELSE issued
          /\ idx' = idx + 1
          /\ pc' = "loop"
    /\ UNCHANGED <<script, auth, input, rows, called, hidden, lastPost, schedPosts, searchSt, sel,
                   attempts, outcome, clicked, tasks, searchRes, submitRes, parseVars, policyVars, auxVars>>

Next ==
    \/ Start
    \/ NextItem
    \/ GetState
    \/ PostSearch
    \/ WaitControls
    \/ SelectTimezone
    \/ FillForm
    \/ TrySelector
    \/ Race
    \/ ManualSubmit
    \/ PollStatus
    \/ WriteRow
    \/ SfFill
    \/ SfSearch
    \/ SfCheck
    \/ SfPrepare
    \/ SfSubmit
    \/ SfAfter
    \/ SfExcept

Spec == Init /\ [][Next]_vars

(***************************************************************************)
(* SpecParse: the response parsers applied to one status fragment in its   *)
(* two transport shapes.                                                   *)
(***************************************************************************)
RunIdle ==
    /\ script = "none"
    /\ input = << >>
    /\ rows = << >>
    /\ idx = 1
    /\ pc = "idle"
    /\ ledger = << >>
    /\ called = {}
    /\ issued = 0
    /\ dom = BlankPage
    /\ hidden = 0
    /\ lastPost = NoPost
    /\ schedPosts = 0
    /\ searchSt = "none"
    /\ sel = 1
    /\ attempts = << >>
    /\ outcome = "none"
    /\ clicked = FALSE
    /\ tasks = NoTasks
    /\ searchRes = NoResult
    /\ submitRes = NoResult
    /\ auth = "ok"
    /\ errors = << >>

ParseInit ==
    /\ RunIdle
    /\ PolicyIdle
    /\ AuxIdle
    /\ fragment \in Fragments
    /\ parser \in {"pw", "http"}
    /\ fullText = << >>
    /\ deltaText = << >>
    /\ parsed = {}
    /\ title = << >>
    /\ titledText = << >>

\* The fragment arrives as the body of a full page.
ParseFull ==
    /\ "full" \notin parsed
    /\ fullText' = ParseFor(parser, FullPage(fragment))
    /\ parsed' = parsed \cup {"full"}
    /\ UNCHANGED <<runVars, policyVars, auxVars, fragment, parser, deltaText, title, titledText>>

\* The fragment arrives as the updatePanel entry of a delta.
ParseDelta ==
    /\ "delta" \notin parsed
    /\ deltaText' = ParseFor(parser, DeltaWrap(fragment))
    /\ parsed' = parsed \cup {"delta"}
    /\ UNCHANGED <<runVars, policyVars, auxVars, fragment, parser, fullText, title, titledText>>

\* The page titles the server sends: none, or one holding an outcome word.
Titles == {<< >>, <<"Success">>}

\* The fragment arrives in a delta that also carries the page title.
ParseTitled ==
    /\ "titled" \notin parsed
    /\ \E t \in Titles :
         /\ title' = t
         /\ titledText' = ParseFor(parser, DeltaTitled(fragment, t))
    /\ parsed' = parsed \cup {"titled"}
    /\ UNCHANGED <<runVars, policyVars, auxVars, fragment, parser, fullText, deltaText>>

ParseNext ==
    \/ ParseFull
    \/ ParseDelta

SpecParse == ParseInit /\ [][ParseNext]_vars

\* SpecTitled: the parsers applied to the same fragment in the three shapes.
TitledNext ==
    \/ ParseFull
    \/ ParseDelta
    \/ ParseTitled

SpecTitled == ParseInit /\ [][TitledNext]_vars

(***************************************************************************)
(* SpecPolicy: the schedule step of one device whose search was answered,  *)
(* in the Playwright replay ("pw": main and dom_submit_schedule) and in    *)
(* schedule_firmware ("sf": handle_row).  The inputs vary one policy at a  *)
(* time: the day offsets and the clock, or the time dropdown and the       *)
(* configured time, or the timezone dropdown and the device's state.       *)
(***************************************************************************)
Dropdowns(pool) == SeqsUpTo(pool, MaxOptions)

DateInputs ==
    /\ daysMin \in DayOffsets
    /\ daysMax \in DayOffsets
    /\ resolver = "sf" => (daysMin = DefaultDaysMin /\ daysMax = DefaultDaysMax)
    /\ midnight \in BOOLEAN
    /\ prefTime = "03"
    /\ timeOptions = DefaultTimeOptions
    /\ devState = "VIC"
    /\ tzOptions = DefaultTzOptions

TimeInputs ==
    /\ daysMin = DefaultDaysMin
    /\ daysMax = DefaultDaysMax
    /\ midnight = FALSE
    /\ prefTime \in TimeValues
    /\ timeOptions \in Dropdowns(TimePool)
    /\ devState = "VIC"
    /\ tzOptions = DefaultTzOptions

TimezoneInputs ==
    /\ daysMin = DefaultDaysMin
    /\ daysMax = DefaultDaysMax
    /\ midnight = FALSE
    /\ prefTime = "03"
    /\ timeOptions = DefaultTimeOptions
    /\ devState \in DeviceStates
    /\ tzOptions \in Dropdowns(TzPool)

PolicyInit ==
    /\ RunIdle
    /\ ParseIdle
    /\ AuxIdle
    /\ resolver \in {"pw", "sf"}
    /\ (DateInputs \/ TimeInputs \/ TimezoneInputs)
    /\ polPc = "date"
    /\ chosen = NoChosen
    /\ applied = NoValues
    /\ logged = NoValues

\* pw: pick_schedule_date.  sf: pick_random_schedule_date and
\* set_schedule_date, which leaves the date in the field in the page's format
\* and returns it normalised to ISO, or raises when the field is not there.
ResolveDate ==
    /\ polPc = "date"
    /\ IF resolver = "pw"
       THEN \E d \in PickScheduleDate(daysMin, daysMax, midnight) :
              /\ chosen' = [chosen EXCEPT !.date = IsoDate(d)]
              /\ polPc' = "time"
              /\ UNCHANGED applied
       ELSE \/ \E d \in PickRandomScheduleDate(midnight), fmt \in {"iso", "dmy"} :
                 /\ applied' = [applied EXCEPT !.date = [day |-> d, fmt |-> fmt]]
                 /\ chosen' = [chosen EXCEPT !.date = IsoDate(d)]
                 /\ polPc' = "time"
            \/ /\ polPc' = "failed_page"
               /\ UNCHANGED <<chosen, applied>>
    /\ UNCHANGED <<runVars, parseVars, auxVars, resolver, devState, prefTime, daysMin, daysMax,
                   midnight, timeOptions, tzOptions, logged>>

\* pw: time_val = PREFERRED_TIME_VALUE.  sf: select_time.
ResolveTime ==
    /\ polPc = "time"
    /\ IF resolver = "pw"
       THEN /\ chosen' = [chosen EXCEPT !.time = prefTime]
            /\ polPc' = "tz"
            /\ UNCHANGED applied
       ELSE LET r == SelectTime(timeOptions)
            IN IF r.ok
               THEN /\ chosen' = [chosen EXCEPT !.time = r.value, !.timeLabel = r.label]
                    /\ applied' = [applied EXCEPT !.time = ValueAt(timeOptions, r.at)]
                    /\ polPc' = "tz"
               ELSE /\ polPc' = "failed_time"
                    /\ UNCHANGED <<chosen, applied>>
    /\ UNCHANGED <<runVars, parseVars, auxVars, resolver, devState, prefTime, daysMin, daysMax,
                   midnight, timeOptions, tzOptions, logged>>

\* pw: timezone_for_state and select_timezone_on_page.  sf: select_timezone,
\* which raises ValueError for a state without mapping.
ResolveTimezone ==
    /\ polPc = "tz"
    /\ IF resolver = "pw"
       THEN LET desired == TimezoneForState(devState)
                r == SelectTimezoneOnPage(tzOptions, desired, desired = "+11:00")
            IN /\ chosen' = [chosen EXCEPT !.tz = r.value, !.intended = desired]
               /\ applied' = [applied EXCEPT !.tz = ValueAt(tzOptions, r.at)]
               /\ polPc' = "fill"
       ELSE IF UpperState(devState) \notin DOMAIN STATE_TIMEZONE
       THEN /\ polPc' = "failed_state"
            /\ UNCHANGED <<chosen, applied>>
       ELSE LET target == STATE_TIMEZONE[UpperState(devState)]
                r == SelectTimezone_sf(tzOptions, target)
            IN /\ chosen' = [chosen EXCEPT !.tz = r.value, !.tzLabel = r.label,
                                           !.intended = target.value]
               /\ applied' = [applied EXCEPT !.tz = ValueAt(tzOptions, r.at)]
               /\ polPc' = "submit"
    /\ UNCHANGED <<runVars, parseVars, auxVars, resolver, devState, prefTime, daysMin, daysMax,
                   midnight, timeOptions, tzOptions, logged>>

\* dom_submit_schedule before the click: setVal of the three controls, then
\* the ISO date found in the field is rewritten as dd/MM/yyyy.
FillSchedule ==
    /\ polPc = "fill"
    /\ applied' = [date |-> DmyDate(chosen.date.day),
                   time |-> ValueAt(timeOptions, SetVal(timeOptions, chosen.time)),
                   tz |-> ValueAt(tzOptions, SetVal(tzOptions, chosen.tz))]
    /\ polPc' = "submit"
    /\ UNCHANGED <<runVars, parseVars, auxVars, resolver, devState, prefTime, daysMin, daysMax,
                   midnight, timeOptions, tzOptions, chosen, logged>>

\* The schedule postback: it carries the values the controls hold.
SubmitSchedule ==
    /\ polPc = "submit"
    /\ \E ok \in BOOLEAN : polPc' = IF ok THEN "log" ELSE "failed_page"
    /\ UNCHANGED <<runVars, parseVars, auxVars, resolver, devState, prefTime, daysMin, daysMax,
                   midnight, timeOptions, tzOptions, chosen, applied, logged>>

\* pw: writer.writerow with date_iso, time_val, actual_tz_val.  sf: append_log
\* with scheduled_date_str, time_label or time_value, timezone_label or
\* timezone_value.
LogSchedule ==
    /\ polPc = "log"
    /\ logged' = IF resolver = "pw"
                 THEN [date |-> chosen.date, time |-> chosen.time, tz |-> chosen.tz]
                 ELSE [date |-> chosen.date,
                       time |-> IF chosen.timeLabel # "" THEN chosen.timeLabel ELSE chosen.time,
                       tz |-> IF chosen.tzLabel # "" THEN chosen.tzLabel ELSE chosen.tz]
    /\ polPc' = "logged"
    /\ UNCHANGED <<runVars, parseVars, auxVars, resolver, devState, prefTime, daysMin, daysMax,
                   midnight, timeOptions, tzOptions, chosen, applied>>

PolicyNext ==
    \/ ResolveDate
    \/ ResolveTime
    \/ ResolveTimezone
    \/ FillSchedule
    \/ SubmitSchedule
    \/ LogSchedule

SpecPolicy == PolicyInit /\ [][PolicyNext]_vars

(***************************************************************************)
(* SpecInput: scripts/schedule_firmware.py over a CSV input: load_rows,   *)
(* the status of each row, and remove_row_from_input.                      *)
(***************************************************************************)

\* Header spellings of the serial and the product column.  All but the
\* last of each are accepted by _load_rows_from_csv.
SerialHeaders == {"SerialNumber", "serialnumber", "SERIALNUMBER", "Serial_Number",
                  "serial", "Device"}

ProductHeaders == {"Product_Code", "product_code", "ProductCode", "PRODUCT", "Model"}

\* str.lower() on the header spellings.
LowerCase(h) ==
    CASE h \in {"SerialNumber", "serialnumber", "SERIALNUMBER"} -> "serialnumber"
      [] h = "Serial_Number" -> "serial_number"
      [] h = "serial" -> "serial"
      [] h = "Device" -> "device"
      [] h \in {"Product_Code", "product_code"} -> "product_code"
      [] h = "ProductCode" -> "productcode"
      [] h = "PRODUCT" -> "product"
      [] h = "Model" -> "model"
      [] OTHER -> h

\* The data rows of the file: serial and product cells.
CsvRecords == [serial : {"S1", "S2"}, product : {"PC", ""}]

CsvFiles == {f \in SeqsUpTo(CsvRecords, MaxRows) :
                \A i, j \in 1..Len(f) : f[i].serial = f[j].serial => i = j}

\* _value(*candidates) of _load_rows_from_csv over the record whose keys are
\* lower-cased: the cell under the first candidate present and non-empty.
LoadedValue(header, cell, candidates) ==
    IF LowerCase(header) \in candidates THEN cell ELSE ""

LoadedRow(rec) ==
    [serial |-> LoadedValue(headers.serial, rec.serial,
                            {"serialnumber", "serial_number", "serial"}),
     product |-> LoadedValue(headers.product, rec.product,
                             {"product_code", "productcode", "product"})]

\* _load_rows_from_csv: the rows with a serial and a product, in file order.
RECURSIVE LoadRowsFromCsv(_, _)
LoadRowsFromCsv(file, i) ==
    IF i > Len(file) THEN << >>
    ELSE IF LoadedRow(file[i]).serial = "" \/ LoadedRow(file[i]).product = ""
    THEN LoadRowsFromCsv(file, i + 1)
    ELSE <<LoadedRow(file[i])>> \o LoadRowsFromCsv(file, i + 1)

\* record.get(a) or record.get(b) of _remove_row_from_csv, over the record
\* whose keys are the header as spelled in the file.
RawValue(header, cell, a, b) == IF header = a \/ header = b THEN cell ELSE ""

\* The index of the first record _remove_row_from_csv matches, or 0.
RECURSIVE IndexToRemove(_, _, _)
IndexToRemove(file, row, i) ==
    IF i > Len(file) THEN 0
    ELSE IF /\ RawValue(headers.serial, file[i].serial, "SerialNumber", "serialnumber")
                  = row.serial
            /\ RawValue(headers.product, file[i].product, "Product_Code", "product_code")
                  = row.product
    THEN i
    ELSE IndexToRemove(file, row, i + 1)

\* _remove_row_from_csv: the file without the first matching record, or as
\* it is when no record matches.
RemoveRowFromCsv(file, row) ==
    IF IndexToRemove(file, row, 1) = 0 THEN file
    ELSE [k \in 1..(Len(file) - 1) |->
            IF k < IndexToRemove(file, row, 1) THEN file[k] ELSE file[k + 1]]

\* What handle_row returns, or "Failed" logged by run when it raised.
RowStatuses == {"Scheduled", "NotEligible", "AlreadyUpgraded", "Failed"}

InputInit ==
    /\ RunIdle
    /\ ParseIdle
    /\ PolicyIdle
    /\ JobIdle
    /\ SessionIdle
    /\ PayloadIdle
    /\ headers \in [serial : SerialHeaders, product : ProductHeaders]
    /\ csv \in CsvFiles
    /\ queue = << >>
    /\ handled = << >>
    /\ inPc = "load"

\* run: load_rows; no rows, nothing to do.
LoadRows ==
    /\ inPc = "load"
    /\ queue' = LoadRowsFromCsv(csv, 1)
    /\ inPc' = IF queue' = << >> THEN "done" ELSE "rows"
    /\ UNCHANGED <<mainVars, jobVars, sessionVars, payloadVars, headers, csv, handled>>

\* The body of the loop of run for one row: handle_row logs a status (or
\* run logs Failed for what it raised); a Scheduled row is removed from the
\* input file.
HandleRow ==
    /\ inPc = "rows"
    /\ \E status \in RowStatuses :
         /\ handled' = Append(handled, [row |-> Head(queue), status |-> status])
         /\ csv' = IF status = "Scheduled" THEN RemoveRowFromCsv(csv, Head(queue)) ELSE csv
    /\ queue' = Tail(queue)
    /\ inPc' = IF queue' = << >> THEN "done" ELSE "rows"
    /\ UNCHANGED <<mainVars, jobVars, sessionVars, payloadVars, headers>>

InputNext ==
    \/ LoadRows
    \/ HandleRow

SpecInput == InputInit /\ [][InputNext]_vars

(***************************************************************************)
(* SpecJob: run_job of epgw-businessrules.py.                              *)
(***************************************************************************)

\* The input workbooks: up to MaxRows rows; validate_row accepts a row or
\* does not.
JobWorkbooks ==
    UNION {{f \in [1..n -> [id : 1..n, valid : BOOLEAN]] : \A i \in 1..n : f[i].id = i} :
           n \in 0..MaxRows}

\* --max-rows: absent, or an integer.
MaxRowsArgs == {NoLimit} \cup {[given |-> TRUE, n |-> n] : n \in 0..MaxRows}

JobInit ==
    /\ RunIdle
    /\ ParseIdle
    /\ PolicyIdle
    /\ InputIdle
    /\ SessionIdle
    /\ PayloadIdle
    /\ workbook \in JobWorkbooks
    /\ maxRowsArg \in MaxRowsArgs
    /\ mutateInput \in BOOLEAN
    /\ jobRows = << >>
    /\ jobIdx = 1
    /\ processedCount = 0
    /\ keptUnprocessed = << >>
    /\ completed = << >>
    /\ jobPc = "start"

\* run_job up to the loop: read_rules_from_xlsx, the browser context and
\* the page (either may raise), ensure_logged_in.
JobStart ==
    /\ jobPc = "start"
    /\ jobRows' = workbook
    /\ IF workbook = << >> THEN jobPc' = "done"
       ELSE jobPc' \in {"loop", "raised", "done"}
    /\ UNCHANGED <<mainVars, inputVars, sessionVars, payloadVars, workbook, maxRowsArg, mutateInput, jobIdx,
                   processedCount, keptUnprocessed, completed>>

\* The status create_rule_from_row ends with: returned, or ERROR for what it
\* raised.
CreateStatuses == {"SUCCESS", "ERROR"}

\* The body of the loop for one row: the limit test, validate_row, the
\* creation, the ledger row, the counters, and the page reset, which may
\* raise.
JobRow ==
    /\ jobPc = "loop"
    /\ jobIdx <= Len(jobRows)
    /\ IF maxRowsArg.given /\ processedCount >= maxRowsArg.n
       THEN /\ keptUnprocessed' = Append(keptUnprocessed, jobRows[jobIdx])
            /\ jobIdx' = jobIdx + 1
            /\ UNCHANGED <<completed, processedCount, jobPc>>
       ELSE /\ \E status \in (IF jobRows[jobIdx].valid THEN CreateStatuses ELSE {"SKIPPED"}) :
                 /\ completed' = Append(completed, [id |-> jobRows[jobIdx].id, status |-> status])
                 /\ processedCount' = IF status = "SUCCESS" THEN processedCount + 1
                                      ELSE processedCount
                 /\ keptUnprocessed' = IF status = "SUCCESS" THEN keptUnprocessed
                                       ELSE Append(keptUnprocessed, jobRows[jobIdx])
            /\ \/ jobIdx' = jobIdx + 1 /\ UNCHANGED jobPc
               \/ jobPc' = "raised" /\ UNCHANGED jobIdx
    /\ UNCHANGED <<mainVars, inputVars, sessionVars, payloadVars, workbook, maxRowsArg, mutateInput, jobRows>>

\* After the loop: _rewrite_input_with_kept when --mutate-input is given and
\* a row succeeded.
JobFinish ==
    /\ jobPc = "loop"
    /\ jobIdx > Len(jobRows)
    /\ workbook' = IF mutateInput /\ processedCount > 0 THEN keptUnprocessed ELSE workbook
    /\ jobPc' = "done"
    /\ UNCHANGED <<mainVars, inputVars, sessionVars, payloadVars, maxRowsArg, mutateInput, jobRows, jobIdx,
                   processedCount, keptUnprocessed, completed>>

JobNext ==
    \/ JobStart
    \/ JobRow
    \/ JobFinish

SpecJob == JobInit /\ [][JobNext]_vars

(***************************************************************************)
(* SpecPayload: the hidden fields of a page, the state extracted from      *)
(* them, the payload of the search built from the state, and the state     *)
(* extracted from a page that echoes the payload.                          *)
(***************************************************************************)

\* The hidden fields of a WebForms page.
HiddenNames == {"__VIEWSTATE", "__VIEWSTATEGENERATOR", "__EVENTVALIDATION",
                "__EVENTTARGET", "__EVENTARGUMENT", "__LASTFOCUS"}

\* The names extract_hidden and make_form of webforms_replay.py know.
HiddenNamesWr == HiddenNames \ {"__LASTFOCUS"}

\* The values of a hidden input.
FieldValues == {"", "x"}

\* The pages: the hidden inputs present, each with its value.
Pages == UNION {[present -> FieldValues] : present \in SUBSET HiddenNames}

\* hidden.get(name, ""), and the value of an input of the page, "" when the
\* page has none of that name.
GetOr(d, name) == IF name \in DOMAIN d THEN d[name] ELSE ""

\* extract_hidden (http), get_state (pw): every one of the six names, "" for
\* an input that is missing.  extract_hidden (wr): five names, and only
\* those with a non-empty value.
ExtractHidden(sc, page) ==
    IF sc = "wr"
    THEN [n \in {m \in HiddenNamesWr : GetOr(page, m) # ""} |-> page[n]]
    ELSE [n \in HiddenNames |-> GetOr(page, n)]

\* The fields of the search action itself.
ActionFields(sc) ==
    IF sc = "wr" THEN {"MainContent_txtSerial", "MainContent_btnSearch"}
    ELSE {"ctl00$MainContent$SerialNumber", "__ASYNCPOST"}

\* post_search (http, pw), make_form (wr): the hidden fields from the state,
\* then the fields of the action.
BuildForm(sc, state) ==
    [n \in (IF sc = "wr" THEN HiddenNamesWr ELSE HiddenNames) \cup ActionFields(sc) |->
        IF n \in HiddenNames THEN GetOr(state, n) ELSE "x"]

\* The page of a server that echoes the payload: a hidden input for each
\* hidden field posted.
EchoPage(f) == [n \in DOMAIN f \cap HiddenNames |-> f[n]]

PayloadInit ==
    /\ RunIdle
    /\ ParseIdle
    /\ PolicyIdle
    /\ InputIdle
    /\ JobIdle
    /\ SessionIdle
    /\ pbScript \in {"http", "pw", "wr"}
    /\ pageFields \in Pages
    /\ captured = << >>
    /\ form = << >>
    /\ echoed = << >>
    /\ pbPc = "page"

\* get_state / extract_hidden on the page.
CaptureState ==
    /\ pbPc = "page"
    /\ captured' = ExtractHidden(pbScript, pageFields)
    /\ pbPc' = "captured"
    /\ UNCHANGED <<mainVars, inputVars, jobVars, sessionVars, pbScript, pageFields, form, echoed>>

\* The payload of the search.
BuildPayload ==
    /\ pbPc = "captured"
    /\ form' = BuildForm(pbScript, captured)
    /\ pbPc' = "built"
    /\ UNCHANGED <<mainVars, inputVars, jobVars, sessionVars, pbScript, pageFields, captured,
                   echoed>>

\* The extraction applied to the echo of the payload.
ExtractEcho ==
    /\ pbPc = "built"
    /\ echoed' = ExtractHidden(pbScript, EchoPage(form))
    /\ pbPc' = "echoed"
    /\ UNCHANGED <<mainVars, inputVars, jobVars, sessionVars, pbScript, pageFields, captured,
                   form>>

PayloadNext ==
    \/ CaptureState
    \/ BuildPayload
    \/ ExtractEcho

SpecPayload == PayloadInit /\ [][PayloadNext]_vars

(***************************************************************************)
(* SpecSession: main / run / run_job around the device loop: the session   *)
(* store, the results ledger file, the browser and its context.  A device  *)
(* is one step; its details are those of Spec.                             *)
(***************************************************************************)

\* pw, http: the replay scripts; sf: scripts/schedule_firmware.py; epgw:
\* epgw-businessrules.py.
SessionScripts == {"pw", "http", "sf", "epgw"}

\* The scripts that drive a browser.
UsesBrowser(sc) == sc # "http"

\* A row the ledger file holds from an earlier run, and the row of a device
\* of this run.
OldRow == [run |-> "earlier", dev |-> 1]

NewRow(k) == [run |-> "this", dev |-> k]

SessionInit ==
    /\ RunIdle
    /\ ParseIdle
    /\ PolicyIdle
    /\ InputIdle
    /\ JobIdle
    /\ PayloadIdle
    /\ sessScript \in SessionScripts
    /\ store \in BOOLEAN
    /\ work \in 0..MaxRows
    /\ outFile \in {<< >>, <<OldRow>>}
    /\ readable \in (IF sessScript = "sf" /\ outFile # << >> THEN BOOLEAN ELSE {TRUE})
    /\ browser = "none"
    /\ context = "none"
    /\ sent = 0
    /\ sessPc = "start"

\* How the acquisition of browser, context and page ends.
AcquireOutcomes == {"launch_raised", "context_raised", "page_raised", "ok"}

\* The start of the run.  http: the ledger is opened with mode "w", then
\* import_cookies raises FileNotFoundError without the store.  sf, epgw:
\* the rows are loaded first and an empty input ends the run; sf then raises
\* FileNotFoundError without the store.  pw, sf, epgw: launch, new_context
\* and new_page; pw passes storage_state only if the file exists;
\* get_browser_context (epgw) launches a persistent context without it.
\* new_page is inside the try of sf only.
Acquire ==
    /\ sessPc = "start"
    /\ IF sessScript = "http"
       THEN /\ outFile' = << >>
            /\ readable' = TRUE
            /\ sessPc' = IF store THEN "rows" ELSE "needs_login"
            /\ UNCHANGED <<browser, context>>
       ELSE IF sessScript \in {"sf", "epgw"} /\ work = 0
       THEN /\ sessPc' = "done"
            /\ UNCHANGED <<outFile, readable, browser, context>>
       ELSE IF sessScript = "sf" /\ ~store
       THEN /\ sessPc' = "needs_login"
            /\ UNCHANGED <<outFile, readable, browser, context>>
       ELSE /\ \E r \in AcquireOutcomes :
                 /\ browser' = IF r = "launch_raised" \/ (sessScript = "epgw" /\ ~store)
                                THEN "none" ELSE "open"
                 /\ context' = IF r \in {"launch_raised", "context_raised"}
                                THEN "none" ELSE "open"
                 /\ sessPc' = IF r = "ok" THEN (IF sessScript = "pw" THEN "rows" ELSE "loop")
                               ELSE IF r = "page_raised" /\ sessScript = "sf" THEN "closing"
                               ELSE "raised"
            /\ UNCHANGED <<outFile, readable>>
    /\ UNCHANGED <<mainVars, inputVars, jobVars, payloadVars, sessScript, store, work, sent>>

\* pw, http: read_rows; no rows, the run ends (pw closes context and
\* browser); otherwise pw opens the ledger with mode "w".
ReadRows ==
    /\ sessPc = "rows"
    /\ IF work = 0
       THEN /\ sessPc' = "done"
            /\ browser' = IF sessScript = "pw" THEN "closed" ELSE browser
            /\ context' = IF sessScript = "pw" THEN "closed" ELSE context
            /\ UNCHANGED outFile
       ELSE /\ sessPc' = "loop"
            /\ outFile' = IF sessScript = "pw" THEN << >> ELSE outFile
            /\ UNCHANGED <<browser, context>>
    /\ UNCHANGED <<mainVars, inputVars, jobVars, payloadVars, sessScript, store, work,
                   readable, sent>>

\* writer.writerow / append_completed_row_csv: the row after those of the
\* file.  _append_log_json (sf): the rows read from the file, none when it
\* does not parse, then the row; the file is written anew.
AppendRow(sc, file, ok, row) ==
    IF sc = "sf" /\ ~ok THEN <<row>> ELSE Append(file, row)

\* One device: its requests, then its row (sf, epgw: also the row of an
\* error caught in the loop), or an exception that leaves the loop: to the
\* caller (pw, http), or through the finally (sf, epgw).
Device ==
    /\ sessPc = "loop"
    /\ work > 0
    /\ sent' = sent + 1
    /\ \/ /\ outFile' = AppendRow(sessScript, outFile, readable, NewRow(sent'))
          /\ readable' = TRUE
          /\ work' = work - 1
          /\ UNCHANGED sessPc
       \/ /\ sessPc' = IF sessScript \in {"pw", "http"} THEN "raised" ELSE "closing"
          /\ UNCHANGED <<outFile, readable, work>>
    /\ UNCHANGED <<mainVars, inputVars, jobVars, payloadVars, sessScript, store, browser,
                   context>>

\* The end of the loop (pw: context.close, browser.close; http: nothing) and
\* the finally of sf (context.close, browser.close) and of epgw
\* (context.close).
Release ==
    /\ sessPc = "closing" \/ (sessPc = "loop" /\ work = 0)
    /\ context' = IF UsesBrowser(sessScript) THEN "closed" ELSE context
    /\ browser' = IF sessScript \in {"pw", "sf"} THEN "closed" ELSE browser
    /\ sessPc' = IF sessPc = "closing" THEN "failed" ELSE "done"
    /\ UNCHANGED <<mainVars, inputVars, jobVars, payloadVars, sessScript, store, work,
                   outFile, readable, sent>>

SessionNext ==
    \/ Acquire
    \/ ReadRows
    \/ Device
    \/ Release

SpecSession == SessionInit /\ [][SessionNext]_vars

(***************************************************************************)
(* Claims.                                                                 *)
(***************************************************************************)

RowsOf(i) == {k \in 1..Len(ledger) : ledger[k].dev = i}

Complete(r) == r.serial # "" /\ r.product # ""

\* C1: per-device errors never abort the batch: no error raised while a device
\* is processed ends the run, and when the run is over every record with a
\* serial and a product has a ledger row.  (The claim as stated; the replay
\* scripts have no handler at the device boundary.)
C1_ErrorsNeverAbort ==
    /\ pc # "aborted"
    /\ pc = "done" => \A i \in 1..Len(input) : Complete(input[i]) => RowsOf(i) # {}

C3_ExactlyOneRow ==
    /\ \A i \in 1..Len(input) : Cardinality(RowsOf(i)) <= 1
    /\ pc = "done" => \A i \in 1..Len(input) : Complete(input[i]) => Cardinality(RowsOf(i)) = 1

\* C4: every postback carries the hidden fields issued by the most recent
\* server response.  (The claim as stated; the schedule click of the
\* Playwright replay posts the DOM's fields, which the search fetch left as
\* they were before the search response.)
C4_FreshState == lastPost.kind # "none" => lastPost.vs = lastPost.latest

\* C5: no network call is made on behalf of a record whose serial number or
\* product code is empty.
C5_NoCallForIncomplete == \A i \in called : input[i].serial # "" /\ input[i].product # ""

\* C5 witness: a run that is done passed a record without serial or product
\* and made the calls of another record.
C5_Witness ==
    /\ pc = "done"
    /\ script # "sf"
    /\ \E i \in 1..Len(input) : input[i].serial = "" \/ input[i].product = ""
    /\ called # {}

\* C6: a strategy whose wait ends with no status and no navigation triggers
\* the next strategy: when the chain is left for the status polling, the last
\* strategy was not a click that neither a status nor a reload followed.  (The
\* claim as stated; the loop breaks after any dispatched click.)
C6_FailedStrategyTriggersNext ==
    (script = "pw" /\ pc = "poll" /\ outcome = "clicked")
        => (tasks.nav = "done" \/ tasks.msg = "done")

C8_ExhaustedIsError ==
    (script = "pw" /\ pc = "loop" /\ Len(attempts) = ManualPostback /\ dom.msg = << >>)
        => (ledger[Len(ledger)].code # 200 /\ ledger[Len(ledger)].text # << >>)

\* C9: once the race of a click has returned, no wait task it started is
\* still pending.  (The claim as stated; asyncio.wait leaves the loser
\* pending and nothing cancels it.)
C9_LoserCancelled == pc # "race" => (tasks.nav # "pending" /\ tasks.msg # "pending")

\* C10: format invariance of the parser: once a fragment has been parsed in
\* both shapes, as a full page and inside a delta, the two status texts are
\* the same.  (The claim as stated; the parsers violate it.)
C10_FormatInvariance == parsed = {"full", "delta"} => fullText = deltaText

\* The documents the parser looks for a status in: the fragments of a delta,
\* or the full-page body.
Documents(body) == IF StartsWithPipe(body) THEN Snippets(body, 1) ELSE <<Flatten(body)>>

NoTextIn(body) ==
    /\ FirstLabelText(Documents(body), 1, 1) = << >>
    /\ FirstCleaned(Documents(body), 1) = << >>

\* C11: ordered parser fallback: for every body, when neither a status
\* element nor the plain-text extraction yields text, the parse is the first
\* keyword of the priority list found in the upper-cased raw body, and empty
\* only when none is found.  (The claim as stated; the delta branch of
\* parse_status_from_html has no keyword sniff.)
C11_KeywordFallback ==
    /\ ("full" \in parsed /\ NoTextIn(FullPage(fragment)))
          => fullText = FirstKeyword(FullPage(fragment))
    /\ ("delta" \in parsed /\ NoTextIn(DeltaWrap(fragment)))
          => deltaText = FirstKeyword(DeltaWrap(fragment))
    /\ ("titled" \in parsed /\ NoTextIn(DeltaTitled(fragment, title)))
          => titledText = FirstKeyword(DeltaTitled(fragment, title))

\* The text of a fragment: that of its first non-empty status element, or
\* else all its words.
TextOf(frag) ==
    IF FirstLabelText(<<frag>>, 1, 1) # << >> THEN FirstLabelText(<<frag>>, 1, 1)
    ELSE GetText(frag)

\* C12: in a delta whose updatePanel marker is followed by panelId,
\* byteLength and htmlFragment, parse_status_from_html takes the third token
\* after the marker as the fragment and returns its text; for the fragment
\* <html>Success</html> it returns "Success".
C12_ThirdTokenIsFragment ==
    /\ (parser = "pw" /\ "delta" \in parsed) => deltaText = TextOf(fragment)
    /\ (parser = "pw" /\ "delta" \in parsed /\ fragment = Lit("Success"))
          => deltaText = <<"Success">>

\* C12 witness: the delta around <html>Success</html> has been parsed.
C12_Witness ==
    /\ parser = "pw"
    /\ "delta" \in parsed
    /\ fragment = Lit("Success")
    /\ deltaText = <<"Success">>

\* C13: when no status text can be extracted for a submitted schedule action,
\* the ledger row records an explicit marker: its status text is neither
\* empty nor a text that reads like a real outcome ("Scheduled").  (The claim
\* as stated; the replay writes "" and handle_row writes "Scheduled".)
C13_NoMessageMarker ==
    /\ (script = "pw" /\ pc = "loop" /\ schedPosts > 0 /\ dom.msg = << >>)
          => ledger[Len(ledger)].text \notin {<< >>, <<"Scheduled">>}
    /\ (script = "sf" /\ pc = "sf_after" /\ schedPosts > 0 /\ dom.msg = << >>)
          => ledger[Len(ledger)].text \notin {<< >>, <<"Scheduled">>}

\* The allow-listed hour tokens: 00-07 and 19-23.
AllowedHours == {"00", "01", "02", "03", "04", "05", "06", "07", "19", "20", "21", "22", "23"}

Submitted == polPc \in {"log", "logged"}

\* C14: every time value selected and submitted for a schedule action is an
\* allow-listed hour token, for every live option list and every configured
\* preferred time, the value left selected in the dropdown included.  (The
\* claim as stated; the replay submits FIRMWARE_TIME_VALUE as configured and
\* pick_time_option accepts an option by its label alone.)
C14_TimeInAllowList ==
    Submitted => (chosen.time \in AllowedHours /\ applied.time \in AllowedHours)

\* No option of the dropdown matches an allow-listed hour by value or by
\* normalised label, and the dropdown has an option that is no placeholder.
NoAllowedOption(opts) ==
    /\ \A i \in 1..Len(opts) : \A k \in 1..Len(ALLOWED_TIME_OPTIONS) :
          /\ opts[i].value # ALLOWED_TIME_OPTIONS[k].value
          /\ NormaliseTimeLabel(opts[i].label) # NormaliseTimeLabel(ALLOWED_TIME_OPTIONS[k].label)
    /\ ReadOptions(opts) # << >>

\* C15: when no option of the live time dropdown matches an allow-listed
\* hour, select_time selects the first option that is no placeholder: the
\* device does not fail and the field holds that option's value.  (The claim
\* as stated; select_time raises RuntimeError.)
C15_TimeFallback ==
    (resolver = "sf" /\ NoAllowedOption(timeOptions)) =>
        /\ polPc # "failed_time"
        /\ applied.time # "none" => applied.time = ReadOptions(timeOptions)[1].value

\* C16: every schedule date chosen lies in the configured window counted from
\* the day of the call, today + DAYS_MIN <= date <= today + DAYS_MAX, for
\* every configured pair and also when the day changes between the two reads
\* of the clock.  (The claim as stated; a second read on the next day, or
\* DAYS_MIN above DAYS_MAX, gives a date outside.)
C16_DateInWindow ==
    chosen.date # NoDate =>
        (Today + daysMin <= chosen.date.day /\ chosen.date.day <= Today + daysMax)

\* C17: for a device in state VIC the timezone resolved is "+11:00" whenever
\* the live dropdown has an option with that value, whatever the order and
\* the labels of the options.  (The claim as stated; select_timezone
\* re-selects by normalised label, whatever the value of that option.)
C17_VicTimezone ==
    (/\ UpperState(devState) = "VIC"
     /\ FirstWithValue(tzOptions, "+11:00") # 0
     /\ chosen.tz # "none")
        => (chosen.tz = "+11:00" /\ applied.tz = "+11:00")

\* C18: the intended timezone value is the table's entry for the upper-cased
\* state, and the default offset for a state that is empty or not in the
\* table; an unmapped state never fails the schedule action.  (The claim as
\* stated; select_timezone raises ValueError for an unmapped state.)
C18_TimezoneDefault ==
    /\ polPc # "failed_state"
    /\ chosen.intended # "none" =>
          chosen.intended = (IF UpperState(devState) \in DOMAIN STATE_TZ
                             THEN STATE_TZ[UpperState(devState)] ELSE "+11:00")

\* C19: the date, time and timezone of the ledger row are the values the
\* three controls held when the schedule postback was submitted.  (The claim
\* as stated; main writes date_iso and time_val as intended, the field holds
\* the date rewritten as dd/MM/yyyy.)
C19_LedgerRecordsApplied ==
    (resolver = "pw" /\ polPc = "logged") =>
        (logged.date = applied.date /\ logged.time = applied.time /\ logged.tz = applied.tz)

\* C20: a search rejected because its view state or event validation is
\* stale is sent again, once, with the state captured anew: the script does
\* not go on to the next step of the device with its search left rejected.
\* (The claim as stated; post_search is called once and its answer written.)
C20_StaleRetriedOnce ==
    (script \in {"http", "wr"} /\ pc = "write") => searchSt # "rejected"

\* C21: an authentication failure is surfaced as an outcome of its own: a
\* run that the server refused with a 401 does not end like a run that failed
\* for another reason, and a row written for a refused device is none that a
\* search answered without refusal gives.  (The claim as stated; after a 401
\* the Playwright replay times out waiting for the schedule controls, and
\* raise_for_status raises for a 401 as for a 500.)
C21_AuthFailureDistinct ==
    auth = "denied" =>
        /\ pc # "aborted"
        /\ (script \in {"http", "wr"} /\ pc = "loop") =>
              ledger[Len(ledger)].code \notin HttpCodes

\* The devices the search found ineligible: a row NotEligible or
\* AlreadyUpgraded was logged for them.
Ineligible == {ledger[k].dev : k \in {j \in 1..Len(ledger) :
                   ledger[j].status \in {"NotEligible", "AlreadyUpgraded"}}}

\* C22: without the session store the run sends no request for a device and
\* does not reach the device loop, and it ends as done only when the input
\* had no row.  (The claim as stated; main of the Playwright replay opens
\* its context without storage_state and goes on.)
C22_NoStoreNoRequest ==
    (~store /\ sessScript \in {"pw", "http", "sf"}) =>
        /\ sent = 0
        /\ sessPc # "loop"
        /\ sessPc = "done" => work = 0

\* C23: a device found ineligible after its search is a terminal outcome that
\* is no error: it has no entry in the error ledger and no Failed row.  (The
\* claim as stated; handle_row calls record_error for NotEligible, and a
\* reset_form that raises after the row adds a Failed row.)
C23_IneligibleIsNoError ==
    \A i \in Ineligible :
        /\ \A k \in 1..Len(errors) : errors[k].dev # i
        /\ \A k \in 1..Len(ledger) : ledger[k].dev = i => ledger[k].status # "Failed"

\* C24: the results ledger is append-only: every step leaves each row of
\* the ledger file where it was.  (The claim as stated; the replay scripts
\* open the ledger with mode "w", and _append_log_json starts from an empty
\* list when the file does not parse.)
C24_LedgerAppendOnly ==
    [][\A k \in 1..Len(outFile) : Len(outFile') >= k /\ outFile'[k] = outFile[k]]_vars

\* The run is over.
Ended == sessPc \in {"done", "failed", "raised", "needs_login"}

C26_PostbackRoundTrip ==
    /\ pbPc \in {"built", "echoed"} =>
          \A n \in HiddenNames :
              n \in DOMAIN form /\ form[n] = GetOr(pageFields, n)
    /\ pbPc = "echoed" => echoed = captured

\* C27: a device is logged Scheduled, and removed from the input, only when
\* the answer to its schedule postback reported success: an answer with an
\* error message or with no message never gives a Scheduled row.  (The claim
\* as stated; handle_row logs Scheduled after every click that returns.)
C27_ScheduledOnlyOnSuccess ==
    \A k \in 1..Len(ledger) :
        ledger[k].status = "Scheduled" => ledger[k].text = <<"Success">>

\* The input file holds a row for the device of a loaded row.
InFile(row) ==
    \E i \in 1..Len(csv) : csv[i].serial = row.serial /\ csv[i].product = row.product

\* C28: a row logged Scheduled is no longer in the input file, for every
\* header spelling the loader accepts; a row with another status stays.
\* (The claim as stated; _remove_row_from_csv looks the cells up under
\* SerialNumber, serialnumber, Product_Code and product_code only.)
C28_ScheduledRowRemoved ==
    \A k \in 1..Len(handled) :
        IF handled[k].status = "Scheduled" THEN ~InFile(handled[k].row)
        ELSE InFile(handled[k].row)

\* C29: for one device dom_submit_schedule triggers at most one schedule
\* postback: after a dispatched click, also one whose call then raises, no
\* further control is clicked and the manual submit is not issued.  (The
\* claim as stated; a click that raises is followed by the next selector.)
C29_AtMostOnePostback == script = "pw" => schedPosts <= 1

\* The rows for which the creation of a rule was attempted: they have a
\* ledger row SUCCESS or ERROR.
Attempted == {k \in 1..Len(completed) : completed[k].status \in CreateStatuses}

\* C30: with --max-rows N the creation of a rule is attempted for at most N
\* rows of one run, the rows that end in ERROR counted like those that end
\* in SUCCESS; a row without a ledger row is still in the input when the run
\* is over.  (The claim as stated; processed_count counts SUCCESS only.)
C30_MaxRowsLimitsAttempts ==
    /\ maxRowsArg.given => Cardinality(Attempted) <= maxRowsArg.n
    /\ jobPc = "done" =>
          \A i \in 1..Len(jobRows) :
              (\A k \in 1..Len(completed) : completed[k].id # jobRows[i].id)
                  => \E j \in 1..Len(workbook) : workbook[j] = jobRows[i]

====
